---- MODULE Spec2Model ----
(***************************************************************************)
(* N-Queens by simulated annealing on a Boltzmann-style network            *)
(* (src/n-queens_1.py): class Network (weights, update, energy, check)     *)
(* and the driver train().                                                 *)
(*                                                                         *)
(* Floating point.  The temperature is a double.  The model draws the      *)
(* initial temperature and alpha from powers of two, for which every       *)
(* product temperature*alpha is exact until it underflows: a temperature   *)
(* is [zero |-> FALSE, exp |-> e] for 2^e (MinExp <= e) or FZero for 0.0.  *)
(* The probability p of update() is kept as the class of its double value: *)
(* "zero" (p = 0.0), "one" (p = 1.0), "half" (p = 0.5), "mid" (0 < p < 1). *)
(***************************************************************************)
EXTENDS Integers, Naturals, Sequences, FiniteSets, TLC

VARIABLES size, unit, weight, theta, temperature, alpha,
          max_iter, iter, pc, ret, upd, checkRes, energyRes,
          temperature0, ref

vars == <<size, unit, weight, theta, temperature, alpha,
          max_iter, iter, pc, ret, upd, checkRes, energyRes,
          temperature0, ref>>

(* ---------------- bounds ---------------- *)
\* largest board size drawn
MaxSize == 4
\* largest number of active cells of a grid drawn for the pure functions
MaxActive == 5
\* largest iteration budget max_iter drawn for train()
MaxIter == 8

(* ---------------- double arithmetic ---------------- *)
\* exponent of the smallest positive (subnormal) double, 2^-1074
MinExp == -1074
\* x / t overflows to inf when |x / t| >= 2^1024
InfExp == 1024
\* math.exp(x) raises OverflowError for x > 709.78..., i.e. integer x >= 710
ExpOverflow == 710
\* 1.0 + math.exp(-x) == 1.0 for x > 36.74..., i.e. integer x >= 37
ExpNeglect == 37

FZero == [zero |-> TRUE, exp |-> 0]
Pow2(e) == [zero |-> FALSE, exp |-> e]

\* temperature * alpha, alpha = 2^-s: exact, or 0.0 on underflow
\* (2^-1075 is the tie between 0.0 and 2^-1074 and rounds to even, 0.0)
FMul(t, s) ==
  IF t.zero THEN FZero
  ELSE IF t.exp - s < MinExp THEN FZero
  ELSE Pow2(t.exp - s)

\* t1 <= t2 as doubles
FLeq(t1, t2) == t1.zero \/ (~t2.zero /\ t1.exp <= t2.exp)

RECURSIVE TwoTo(_)
TwoTo(k) == IF k = 0 THEN 1 ELSE 2 * TwoTo(k - 1)

\* m * 2^k >= thr, for integers 1 <= m < 2^10, 1 <= thr < 2^10, any k
ScaledGeq(m, k, thr) ==
  IF k >= 10 THEN TRUE
  ELSE IF k >= 0 THEN m * TwoTo(k) >= thr
  ELSE IF k <= -10 THEN FALSE
  ELSE m >= thr * TwoTo(-k)

\* |m / 2^e| is inf: m * 2^-e >= 2^1024, for 1 <= m < 2^10
DivIsInf(m, e) ==
  IF -e >= InfExp THEN TRUE
  ELSE IF -e < InfExp - 10 THEN FALSE
  ELSE m >= TwoTo(InfExp + e)

(* ---------------- Network.__init__ ---------------- *)
Range(n) == 0 .. (n - 1)

d(i, j) == IF i = j THEN 1 ELSE 0

nd(i, j) == IF i = j THEN 0 ELSE 1

p_a == 1
p_b == 1
p_c == 1
p_d == 1

\* the element expression of the list comprehension of line 40
WeightTerm_typo(x, y, a, b) ==
  -2*p_a*nd(x,a)*d(y,b) - 2*p_b*nd(y,b)*d(x,a) - 2*p_c*d(x-y,a+b) - 2*p_d*d(x+y,a+b)

WeightTerm(x, y, a, b) ==
  -2*p_a*nd(x,a)*d(y,b) - 2*p_b*nd(y,b)*d(x,a) - 2*p_c*d(x-y,a-b) - 2*p_d*d(x+y,a+b)

\* the nested comprehension: the outermost list is indexed by b, then a, y, x
WeightComprehension(n) ==
  [b \in Range(n) |-> [a \in Range(n) |-> [y \in Range(n) |-> [x \in Range(n) |->
      WeightTerm(x, y, a, b)]]]]

\* lines 42-44: self-coupling set to 0
ZeroSelf_skipped(w, n) == w

ZeroSelf(w, n) ==
  [x \in Range(n) |-> [y \in Range(n) |-> [a \in Range(n) |-> [b \in Range(n) |->
      IF a = x /\ b = y THEN 0 ELSE w[x][y][a][b]]]]]

WeightOf(n) == ZeroSelf(WeightComprehension(n), n)

ThetaOf == -2 * (p_a + p_b)

\* line 32: the identity board
UnitInit(n) == [j \in Range(n) |-> [i \in Range(n) |-> IF i = j THEN 1 ELSE 0]]

(* ---------------- sums ---------------- *)
\* f[0] + ... + f[n-1]
RECURSIVE SumTo(_, _)
SumTo(f, n) == IF n = 0 THEN 0 ELSE f[n - 1] + SumTo(f, n - 1)

(* ---------------- Network.update ---------------- *)
\* lines 74-77: val_in
ValIn(w, u, th, n, rx, ry) ==
  -th + SumTo([a \in Range(n) |-> SumTo([b \in Range(n) |-> w[rx][ry][a][b] * u[a][b]], n)], n)

\* line 84, the except branch: vv = -val_in / temperature has the sign of -val_in
Fallback_swapped(v) == IF -v > 0 THEN "one" ELSE IF -v < 0 THEN "zero" ELSE "half"

Fallback(v) == IF -v > 0 THEN "zero" ELSE IF -v < 0 THEN "one" ELSE "half"

\* lines 80-84 for a temperature t = 2^e > 0: the class of p and the branch taken.
\*   v = 0: exp(-0.0) = 1, p = 0.5
\*   v > 0: exp of a negative number never raises; p = 1.0 once exp(..) <= 2^-53
\*   v < 0: -v/t = inf gives exp(inf) = inf and p = 0.0 without an exception;
\*          a finite -v/t >= 710 raises OverflowError and the except branch runs
Probability(v, t) ==
  IF v = 0 THEN [p |-> "half", path |-> "try"]
  ELSE IF v > 0 THEN
    IF DivIsInf(v, t.exp) \/ ScaledGeq(v, -t.exp, ExpNeglect)
    THEN [p |-> "one", path |-> "try"]
    ELSE [p |-> "mid", path |-> "try"]
  ELSE
    IF DivIsInf(-v, t.exp) THEN [p |-> "zero", path |-> "try"]
    ELSE IF ScaledGeq(-v, -t.exp, ExpOverflow) THEN [p |-> Fallback(v), path |-> "except"]
    ELSE [p |-> "mid", path |-> "try"]

\* line 91: val = 1 if p > random.random() else 0, random.random() in [0, 1)
Draws(p) ==
  IF p = "one" THEN {1}
  ELSE IF p = "zero" THEN {0}
  ELSE {0, 1}

\* line 88 as reached on the path of a call with this outcome
Decay_onlyOnChange(t, s, changed) == IF changed THEN FMul(t, s) ELSE t

Decay(t, s, changed) == FMul(t, s)

NoUpd == [rx |-> 0, ry |-> 0, old |-> 0, val_in |-> 0, p |-> "none", path |-> "none", val |-> 0]

\* one completed call of update() that selected (rx, ry) and drew val;
\* the locals of the call are kept by Locals below
update(rx, ry, val) ==
  LET v  == ValIn(weight, unit, theta, size, rx, ry)
      pr == Probability(v, temperature)
      changed == val # unit[rx][ry]
  IN /\ ~temperature.zero
     /\ val \in Draws(pr.p)
     /\ temperature' = Decay(temperature, alpha, changed)
     /\ unit' = IF changed THEN [unit EXCEPT ![rx][ry] = val] ELSE unit
     /\ ret' = changed

\* the locals rx, ry, val_in, p and val of that call when it returns
Locals(rx, ry, val) ==
  LET v  == ValIn(weight, unit, theta, size, rx, ry)
      pr == Probability(v, temperature)
  IN [rx |-> rx, ry |-> ry, old |-> unit[rx][ry], val_in |-> v,
      p |-> pr.p, path |-> pr.path, val |-> val]

(* ---------------- Network.energy ---------------- *)
\* lines 104-110: item1; the n*n terms of a cell (x, y) with unit[x][y] = 0
\* all have the factor 0 and are added as one 0
Item1(w, u, n) ==
  SumTo([x \in Range(n) |-> SumTo([y \in Range(n) |->
    IF u[x][y] = 0 THEN 0
    ELSE SumTo([a \in Range(n) |-> SumTo([b \in Range(n) |->
           w[x][y][a][b] * u[x][y] * u[a][b]], n)], n)], n)], n)

\* line 111: item2
Item2(u, th, n) ==
  SumTo([x \in Range(n) |-> SumTo([y \in Range(n) |-> th * u[x][y]], n)], n)

\* line 112; every weight is even, so item1/2.0 is the integer item1 \div 2
energy_noOffset(w, u, th, n) == -(Item1(w, u, n) \div 2) + Item2(u, th, n)

energy_signSlip(w, u, th, n) == (Item1(w, u, n) \div 2) + Item2(u, th, n) + n

energy(w, u, th, n) == -(Item1(w, u, n) \div 2) + Item2(u, th, n) + n

(* ---------------- Network.check ---------------- *)
is_active(val) == val = 1

\* lines 136-137
MarkColumn(cu, y, n) ==
  [cx \in Range(n) |-> [cu[cx] EXCEPT ![y] = 1]]

\* lines 139-140
MarkRow(cu, x, n) ==
  [cu EXCEPT ![x] = [cy \in Range(n) |-> 1]]

\* lines 143-149, from ix on
RECURSIVE DiagDown(_, _, _, _)
DiagDown(cu, ix, dl, n) ==
  IF ix >= n THEN cu
  ELSE LET iy == ix + dl
       IN IF iy < 0 THEN DiagDown(cu, ix + 1, dl, n)
          ELSE IF iy >= n THEN cu
          ELSE DiagDown([cu EXCEPT ![ix][iy] = 1], ix + 1, dl, n)

\* lines 152-158, from ix on
RECURSIVE DiagUp_swapped(_, _, _, _)
DiagUp_swapped(cu, ix, dl, n) ==
  IF ix >= n THEN cu
  ELSE LET iy == dl - ix
       IN IF iy < 0 THEN DiagUp_swapped(cu, ix + 1, dl, n)
          ELSE IF iy >= n THEN cu
          ELSE DiagUp_swapped([cu EXCEPT ![ix][iy] = 1], ix + 1, dl, n)

RECURSIVE DiagUp(_, _, _, _)
DiagUp(cu, ix, dl, n) ==
  IF ix >= n THEN cu
  ELSE LET iy == dl - ix
       IN IF iy < 0 THEN cu
          ELSE IF iy >= n THEN DiagUp(cu, ix + 1, dl, n)
          ELSE DiagUp([cu EXCEPT ![ix][iy] = 1], ix + 1, dl, n)

\* lines 135-158: everything the active cell (x, y) covers
Mark(cu, x, y, n) ==
  DiagUp(DiagDown(MarkRow(MarkColumn(cu, y, n), x, n), 0, y - x, n), 0, x + y, n)

\* lines 126-161 from cell number k (row-major) on
RECURSIVE CheckScan(_, _, _, _, _)
CheckScan(u, n, k, checkunit, count) ==
  IF k = n * n THEN count = n
  ELSE LET x == k \div n
           y == k % n
       IN IF is_active(u[x][y])
          THEN IF checkunit[x][y] = 1 THEN FALSE
               ELSE CheckScan(u, n, k + 1, Mark(checkunit, x, y, n), count + 1)
          ELSE CheckScan(u, n, k + 1, checkunit, count)

check(u, n) ==
  CheckScan(u, n, 0, [j \in Range(n) |-> [i \in Range(n) |-> 0]], 0)

(* ---------------- inputs ---------------- *)
\* (exponent e of the initial temperature 2^e, s of alpha = 2^-s):
\*   temperature 1.0 with alpha 2^-512 (hot, cold, subnormal, then 0.0),
\*   temperature 2^-9 with alpha 0.5 (every nonzero input saturates)
Schedules == { <<0, 512>>, <<-9, 1>> }

\* near-zero temperatures 2^e for a single update()
ColdExps == { -10, -1022, -1074 }

\* every sequence of Q extended by a cell number larger than its last
LastCell(q) == IF q = <<>> THEN -1 ELSE q[Len(q)]

ExtendSeqs(Q, n) ==
  { Append(pr[1], pr[2]) :
      pr \in { p \in Q \X (0 .. (n * n - 1)) : p[2] > LastCell(p[1]) } }

\* the increasing sequences of exactly k cell numbers (row-major) below n*n
RECURSIVE CellSeqs(_, _)
CellSeqs(n, k) ==
  IF k = 0 THEN { <<>> } ELSE ExtendSeqs(CellSeqs(n, k - 1), n)

\* the n x n grid whose active cells are those numbered in q
GridOf(q, n) ==
  [x \in Range(n) |-> [y \in Range(n) |->
     IF \E i \in 1 .. Len(q) : q[i] = x * n + y THEN 1 ELSE 0]]

(* ---------------- feasibility, stated pairwise ---------------- *)
ActiveCells(u, n) == { c \in Range(n) \X Range(n) : u[c[1]][c[2]] = 1 }

Attack(c1, c2) ==
  \/ c1[1] = c2[1]
  \/ c1[2] = c2[2]
  \/ c1[1] - c1[2] = c2[1] - c2[2]
  \/ c1[1] + c1[2] = c2[1] + c2[2]

NonAttacking(A, n) ==
  /\ Cardinality(A) = n
  /\ \A c1 \in A : \A c2 \in A : c1 # c2 => ~Attack(c1, c2)

Feasible(u, n) == NonAttacking(ActiveCells(u, n), n)

\* the feasible n x n grids: one queen per row, column f[x] in row x
FeasibleGrids(n) ==
  { [x \in Range(n) |-> [y \in Range(n) |-> IF f[x] = y THEN 1 ELSE 0]] :
      f \in { g \in [Range(n) -> Range(n)] :
                \A x1 \in Range(n) : \A x2 \in Range(n) :
                   x1 # x2 => ~Attack(<<x1, g[x1]>>, <<x2, g[x2]>>) } }

\* whether the size has a feasible grid, and the energy() of one
Reference(w, th, n) ==
  IF FeasibleGrids(n) = {}
  THEN [solvable |-> FALSE, energy |-> 0]
  ELSE [solvable |-> TRUE,
        energy |-> energy(w, CHOOSE g \in FeasibleGrids(n) : TRUE, th, n)]

(* ---------------- train(): the driver ---------------- *)
Init ==
  /\ size \in 1 .. MaxSize
  /\ unit = UnitInit(size)
  /\ weight = WeightOf(size)
  /\ theta = ThetaOf
  /\ \E sch \in Schedules :
        /\ temperature = Pow2(sch[1])
        /\ alpha = sch[2]
  /\ temperature0 = temperature
  /\ max_iter \in 0 .. MaxIter
  /\ iter = 0
  /\ pc = "loop"
  /\ ret = FALSE
  /\ upd = NoUpd
  /\ checkRes = FALSE
  /\ energyRes = 0
  /\ ref = Reference(weight, theta, size)

\* lines 179-180: one iteration's update() call that returns
TrainUpdate ==
  /\ pc = "loop"
  /\ iter < max_iter
  /\ \E rx \in Range(size), ry \in Range(size), val \in {0, 1} : update(rx, ry, val)
  /\ iter' = iter + 1
  /\ pc' = IF ret' THEN "check" ELSE "loop"
  /\ UNCHANGED <<size, weight, theta, alpha, max_iter, upd, checkRes, energyRes, temperature0, ref>>

\* lines 81-84 at temperature 0.0: -val_in/self.temperature raises
\* ZeroDivisionError in the try block and again in the except block,
\* which leaves update() and train()
TrainUpdateRaises ==
  /\ pc = "loop"
  /\ iter < max_iter
  /\ temperature.zero
  /\ pc' = "error"
  /\ UNCHANGED <<size, unit, weight, theta, temperature, alpha, max_iter, iter, ret, upd,
                 checkRes, energyRes, temperature0, ref>>

\* lines 181-186: after an update() that returned True
TrainCheck_noBreak ==
  /\ pc = "check"
  /\ checkRes' = check(unit, size)
  /\ pc' = "loop"
  /\ UNCHANGED <<size, unit, weight, theta, temperature, alpha, max_iter, iter, ret, upd,
                 energyRes, temperature0, ref>>

TrainCheck ==
  /\ pc = "check"
  /\ checkRes' = check(unit, size)
  /\ pc' = IF checkRes' THEN "solved" ELSE "loop"
  /\ UNCHANGED <<size, unit, weight, theta, temperature, alpha, max_iter, iter, ret, upd,
                 energyRes, temperature0, ref>>

\* line 179: range(max_iter) is used up; line 187
TrainExhausted ==
  /\ pc = "loop"
  /\ iter = max_iter
  /\ pc' = "exhausted"
  /\ UNCHANGED <<size, unit, weight, theta, temperature, alpha, max_iter, iter, ret, upd,
                 checkRes, energyRes, temperature0, ref>>

Next == TrainUpdate \/ TrainUpdateRaises \/ TrainCheck \/ TrainExhausted

Spec == Init /\ [][Next]_vars

(* ---------------- check() and energy() on drawn grids ---------------- *)
InitGrid ==
  /\ size \in 1 .. MaxSize
  /\ weight = WeightOf(size)
  /\ theta = ThetaOf
  /\ ref = Reference(weight, theta, size)
  /\ \E k \in 0 .. MaxActive : \E q \in CellSeqs(size, k) : unit = GridOf(q, size)
  /\ temperature = Pow2(0)
  /\ alpha = 1
  /\ temperature0 = temperature
  /\ max_iter = 0
  /\ iter = 0
  /\ pc = "grid"
  /\ ret = FALSE
  /\ upd = NoUpd
  /\ checkRes = FALSE
  /\ energyRes = 0

\* lines 181 and 184 on the drawn grid: display(), which prints energy(),
\* then check()
GridEvaluate ==
  /\ pc = "grid"
  /\ energyRes' = energy(weight, unit, theta, size)
  /\ checkRes' = check(unit, size)
  /\ pc' = "evaluated"
  /\ UNCHANGED <<size, unit, weight, theta, temperature, alpha, max_iter, iter, ret, upd,
                 temperature0, ref>>

NextGrid == GridEvaluate

SpecGrid == InitGrid /\ [][NextGrid]_vars

(* -------- one update() at near-zero temperature -------- *)
\* from a feasible configuration or from the initial board
InitUpdate ==
  /\ size \in 1 .. MaxSize
  /\ weight = WeightOf(size)
  /\ theta = ThetaOf
  /\ unit \in FeasibleGrids(size) \cup { UnitInit(size) }
  /\ \E e \in ColdExps : temperature = Pow2(e)
  /\ alpha = 1
  /\ temperature0 = temperature
  /\ max_iter = 0
  /\ iter = 0
  /\ pc = "call"
  /\ ret = FALSE
  /\ upd = NoUpd
  /\ checkRes = FALSE
  /\ energyRes = 0
  /\ ref = Reference(weight, theta, size)

UpdateCall ==
  /\ pc = "call"
  /\ \E rx \in Range(size), ry \in Range(size), val \in {0, 1} :
        /\ update(rx, ry, val)
        /\ upd' = Locals(rx, ry, val)
  /\ pc' = "returned"
  /\ UNCHANGED <<size, weight, theta, alpha, max_iter, iter, checkRes, energyRes,
                 temperature0, ref>>

NextUpdate == UpdateCall

SpecUpdate == InitUpdate /\ [][NextUpdate]_vars

(* ======================= properties ======================= *)

\* the number of relations between two cells that line 40 penalises
Relations(x, y, a, b) ==
    (IF x = a /\ y # b THEN 1 ELSE 0)
  + (IF y = b /\ x # a THEN 1 ELSE 0)
  + (IF x - y = a - b THEN 1 ELSE 0)
  + (IF x + y = a + b THEN 1 ELSE 0)

\* the board before the last update() call, from the cell's old value
PrevUnit == [unit EXCEPT ![upd.rx][upd.ry] = upd.old]

\* C1: check() returns True exactly for the grids with exactly N active
\* cells no two of which share a row, a column or a diagonal (the one-pass
\* coverage scan agrees with the pairwise test).
C1_CheckIsPairwise ==
  pc = "evaluated" => (checkRes <=> Feasible(unit, size))

C1_Witness ==
  /\ pc = "evaluated"
  /\ size = 4
  /\ checkRes
  /\ unit[0][1] = 1

\* C2 as stated: energy() of every feasible configuration is 0.
C2_FeasibleEnergyIsZero ==
  (pc = "evaluated" /\ Feasible(unit, size)) => energyRes = 0

\* C2 amended: energy() of every feasible configuration is the same value,
\* -3 * N.
C2_FeasibleEnergyIsMinus3N ==
  (pc = "evaluated" /\ Feasible(unit, size)) => energyRes = -3 * size

C2_Witness ==
  /\ pc = "evaluated"
  /\ size = 4
  /\ Feasible(unit, size)
  /\ energyRes = -12

\* C3 as stated: for a board size that has a solution, a grid attains the
\* least energy() exactly if it is feasible.  All feasible grids have the
\* energy ref.energy, so this says that exactly the feasible grids are at
\* or below ref.energy.
C3_MinimumIffFeasible ==
  (pc = "evaluated" /\ ref.solvable) =>
     (energyRes <= ref.energy <=> Feasible(unit, size))

\* C3 amended: for a board size that has a solution, no grid has an energy()
\* below that of the feasible grids, -3 * N, and every feasible grid has it;
\* infeasible grids may have it too.
C3_FeasibleAttainsMinimum ==
  (pc = "evaluated" /\ ref.solvable) =>
     /\ ref.energy = -3 * size
     /\ energyRes >= ref.energy
     /\ Feasible(unit, size) => energyRes = ref.energy

C3_Witness ==
  /\ pc = "evaluated"
  /\ size = 4
  /\ ref.solvable
  /\ energyRes = ref.energy
  /\ ~Feasible(unit, size)
  /\ Cardinality(ActiveCells(unit, size)) = 5

\* C4: train() evaluates check() after exactly the update() calls that
\* changed the board, becomes solved exactly when that board is feasible,
\* takes no step once solved, and is never solved on an infeasible board.
C4_StopsAtFirstFeasible ==
  /\ [](pc = "solved" => Feasible(unit, size))
  /\ [][ /\ pc # "solved"
         /\ (pc = "loop" /\ iter' = iter + 1) => (pc' = "check" <=> unit' # unit)
         /\ (pc = "loop" /\ iter' = iter + 1 /\ pc' # "check") => pc' = "loop"
         /\ pc = "check" => /\ unit' = unit
                            /\ iter' = iter
                            /\ pc' = "solved" <=> Feasible(unit, size)
                            /\ pc' # "solved" => pc' = "loop" ]_vars

C4_Witness ==
  /\ pc = "solved"
  /\ size = 4
  /\ iter = 8

\* C5 as stated: from a feasible configuration at near-zero temperature
\* update() returns False and leaves the grid unchanged whichever cell is
\* selected; an active cell has positive input, an inactive one negative.
C5_FeasibleIsFixedPoint ==
  (pc = "returned" /\ Feasible(PrevUnit, size)) =>
     /\ ret = FALSE
     /\ unit = PrevUnit
     /\ upd.old = 1 => upd.val_in > 0
     /\ upd.old = 0 => upd.val_in < 0

\* C5 amended: from a feasible configuration at near-zero temperature an
\* active cell has positive input and stays; an inactive cell has input
\* <= 0; update() returns True only for an inactive cell whose input is
\* exactly 0 (p = 0.5), which it activates.
C5_OnlyZeroInputCellsChange ==
  (pc = "returned" /\ Feasible(PrevUnit, size)) =>
     /\ upd.old = 1 => (upd.val_in > 0 /\ upd.p = "one" /\ ret = FALSE)
     /\ upd.old = 0 => upd.val_in <= 0
     /\ upd.val_in < 0 => (upd.p = "zero" /\ ret = FALSE)
     /\ ret = TRUE => (upd.old = 0 /\ upd.val_in = 0 /\ upd.p = "half" /\ unit # PrevUnit)
     /\ ret = FALSE => unit = PrevUnit

C5_Witness ==
  /\ pc = "returned"
  /\ size = 4
  /\ Feasible(PrevUnit, size)
  /\ ret = TRUE
  /\ upd.val_in = 0

\* C6: after k update() calls the temperature is T0 * alpha^k, as the
\* double product gives it (2^(e - s*k), or 0.0 once that underflows),
\* whatever the calls returned; it is never above an earlier value.
C6_TemperatureDecaysOncePerCall ==
  pc \in {"loop", "check", "solved", "exhausted", "error"} =>
     /\ temperature = IF temperature0.exp - alpha * iter >= MinExp
                      THEN Pow2(temperature0.exp - alpha * iter)
                      ELSE FZero
     /\ FLeq(temperature, temperature0)

C6_Witness ==
  /\ pc = "loop"
  /\ iter = 3
  /\ ret = FALSE
  /\ unit # UnitInit(size)
  /\ ~temperature.zero

\* C7: the stored weight tensor is symmetric under swapping the two cells.
C7_WeightSymmetric ==
  \A x \in Range(size), y \in Range(size), a \in Range(size), b \in Range(size) :
     weight[x][y][a][b] = weight[a][b][x][y]

C7_Witness ==
  /\ size = 4
  /\ weight[0][1][2][3] = -2
  /\ weight[2][3][0][1] = -2
  /\ weight[0][1][3][1] = -2

\* C8: update() never propagates an error from the probability
\* computation, however small the temperature has become.
C8_UpdateNeverRaises == pc # "error"

\* C9: weight[x][y][a][b] is 0 for a cell with itself and otherwise -2
\* times the number of relations (same row, same column, same x-y, same
\* x+y) between the cells (x, y) and (a, b).
C9_WeightCountsRelations ==
  \A x \in Range(size), y \in Range(size), a \in Range(size), b \in Range(size) :
     weight[x][y][a][b] =
        IF x = a /\ y = b THEN 0 ELSE -2 * Relations(x, y, a, b)

C9_Witness ==
  /\ size = 4
  /\ weight[1][2][1][2] = 0
  /\ weight[0][1][1][0] = -2
  /\ weight[0][1][1][3] = 0

\* C10: whenever train() ends exhausted, its board is not feasible.
C10_ExhaustedIsInfeasible ==
  pc = "exhausted" => ~Feasible(unit, size)

====
